---- MODULE Spec2Model ----
(***************************************************************************)
(* The randombytes backends of the Dilithium and Kyber WebAssembly trees:  *)
(*   wasm/dilithium5/src/randombytes.c       LCG, Windows, getrandom,      *)
(*                                           /dev/urandom                  *)
(*   wasm/dilithium5/src/randombytes_wasm.c  host bridge, void signature   *)
(*   wasm/kyber1024/src/randombytes.c        host bridge, int signature    *)
(* One process, one caller.  The destination buffer is modelled by the log *)
(* of the writes made into it (offset, length), the kernel, the crypto     *)
(* service and the JavaScript host by nondeterministic results.            *)
(***************************************************************************)
EXTENDS Integers, Sequences, FiniteSets, TLC

\* ------------------------------------------------------------- bounds
MaxLen == 3
MaxLcgLen == 16
MaxCalls == 2
MaxSyscalls == 4
MaxOpens == 2
MaxChunks == 2
MaxHi == 1
MaxInits == 1
MaxMtLen == 2
MaxMtCalls == 2
MaxMtOpens == 2

\* --------------------------------------------------- program constants
LCG_SEED == 12345
LCG_MULT == 1103515245
LCG_INC == 12345
CHUNK == 1048576

\* ------------------------------------------------- 32-bit arithmetic
\* A uint32_t is the pair <<high 16 bits, low 16 bits>>.
W8 == 2^8
W16 == 2^16

Word32(n) == <<(n \div W16) % W16, n % W16>>

\* The 32-bit product of two 16-bit values, by 8-bit limbs.
Mul16(x, y) ==
    LET x1 == x \div W8
        x0 == x % W8
        y1 == y \div W8
        y0 == y % W8
        mid == x1 * y0 + x0 * y1
        t == x0 * y0 + (mid % W8) * W8
    IN  <<(x1 * y1 + mid \div W8 + t \div W16) % W16, t % W16>>

\* a * b mod 2^32
Mul32(a, b) ==
    LET p == Mul16(a[2], b[2])
    IN  <<(p[1] + Mul16(a[1], b[2])[2] + Mul16(a[2], b[1])[2]) % W16, p[2]>>

\* a + b mod 2^32
Add32(a, b) ==
    LET lo == a[2] + b[2]
    IN  <<(a[1] + b[1] + lo \div W16) % W16, lo % W16>>

\* rng_state * 1103515245 + 12345, in uint32_t
LcgNext(s) == Add32(Mul32(s, Word32(LCG_MULT)), Word32(LCG_INC))

\* Mutant: the byte is taken from bits 24..31.
LcgByteTop(s) == (s[1] \div W8) % W8

\* (rng_state >> 16) & 0xFF
LcgByte(s) == s[1] % W8

\* ------------------------------------------------- backend selection
Units == {"dilithium5/randombytes.c", "dilithium5/randombytes_wasm.c",
          "kyber1024/randombytes.c"}

FlagSets == [EMSCRIPTEN : BOOLEAN, WIN32 : BOOLEAN, linux : BOOLEAN,
             SYS_getrandom : BOOLEAN]

\* Mutant: _WIN32 is tested before __EMSCRIPTEN__.
SelectBackendWinFirst(f) ==
    IF f.WIN32 THEN "windows"
    ELSE IF f.EMSCRIPTEN THEN "lcg"
    ELSE IF f.linux /\ f.SYS_getrandom THEN "getrandom"
    ELSE "urandom"

\* The #ifdef ladder of randombytes.c.
SelectBackend(f) ==
    IF f.EMSCRIPTEN THEN "lcg"
    ELSE IF f.WIN32 THEN "windows"
    ELSE IF f.linux /\ f.SYS_getrandom THEN "getrandom"
    ELSE "urandom"

\* The randombytes a translation unit defines under the flags.
BackendOf(u, f) ==
    IF u = "dilithium5/randombytes.c" THEN SelectBackend(f)
    ELSE IF ~f.EMSCRIPTEN THEN "none"
    ELSE IF u = "dilithium5/randombytes_wasm.c" THEN "bridge"
    ELSE "kyber"

\* ------------------------------------------------------------- state
VARIABLES
    unit,       \* the translation unit linked into the build
    flags,      \* the preprocessor flags of the build
    env,        \* the JavaScript host: which capabilities it provides
    rng_state,  \* static uint32_t rng_state (LCG)
    fd,         \* static int fd (/dev/urandom)
    ctx,        \* HCRYPTPROV ctx: "none", "acquired", "released"
    pc,         \* position of the caller inside randombytes
    req,        \* the length argument of the call: [hi, lo], hi = bits 32..63
    out,        \* the cursor, as an offset into the destination
    outlen,     \* the remaining length
    len,        \* DWORD len (Windows), len of the view (bridge)
    i,          \* loop index of the LCG loop
    ret,        \* ssize_t ret
    errno,      \* errno after a failed call
    issued,     \* arguments of the last getrandom/read issued: <<off, count>>
    writes,     \* writes into the destination during this call: <<off, len>>
    stream,     \* all bytes the LCG produced since the process started
    status,     \* value returned by the last call (0, or -1 for void/none)
    call,       \* what this call has done to the backend (counters)
    proc,       \* what the process has done since it started (counters)
    seed0,      \* the value rng_state had when the process started
    live,       \* TRUE: loops are explored without a bound on their turns
    thr,        \* two threads calling randombytes: the locals of each
    mt          \* what the two threads have done to the process (counters)

vars == <<unit, flags, env, rng_state, fd, ctx, pc, req, out, outlen, len, i,
          ret, errno, issued, writes, stream, status, call, proc, seed0, live, thr, mt>>

Backend == BackendOf(unit, flags)

NoCall == [open |-> 0, sys |-> 0, acquire |-> 0, gen |-> 0, release |-> 0,
           invoke |-> 0, log |-> 0, adv |-> 0, intr |-> 0, zero |-> 0,
           thrown |-> "none"]

NoEnv == [crypto |-> FALSE, globalThisCrypto |-> FALSE, require |-> FALSE]

Envs == [crypto : BOOLEAN, globalThisCrypto : BOOLEAN, require : BOOLEAN]

Threads == {1, 2}

\* A thread outside randombytes.
IdleThread == [pc |-> "idle", outlen |-> 0, i |-> 0, reg |-> <<0, 0>>,
               ret |-> 0, errno |-> "none", bytes |-> <<>>]

NoMt == [calls |-> 0, opens |-> 0, overlap |-> FALSE, aborted |-> FALSE]

\* The process right after it started, before any call.
Boot ==
    /\ unit \in Units
    /\ flags \in FlagSets
    /\ BackendOf(unit, flags) # "none"
    /\ unit # "dilithium5/randombytes.c" =>
           flags = [EMSCRIPTEN |-> TRUE, WIN32 |-> FALSE, linux |-> FALSE,
                    SYS_getrandom |-> FALSE]
    /\ env \in Envs
    /\ BackendOf(unit, flags) \notin {"bridge", "kyber"} => env = NoEnv
    /\ rng_state = seed0
    /\ fd = -1
    /\ ctx = "none"
    /\ pc = "idle"
    /\ req = [hi |-> 0, lo |-> 0]
    /\ out = 0
    /\ outlen = 0
    /\ len = 0
    /\ i = 0
    /\ ret = 0
    /\ errno = "none"
    /\ issued = <<>>
    /\ writes = <<>>
    /\ stream = <<>>
    /\ status = -1
    /\ call = NoCall
    /\ proc = [opened |-> 0, closed |-> 0, acquired |-> 0, released |-> 0,
               calls |-> 0, returned |-> 0, inits |-> 0]
    /\ thr = [th \in Threads |-> IdleThread]
    /\ mt = NoMt

\* static uint32_t rng_state = 12345
Init ==
    /\ seed0 = Word32(LCG_SEED)
    /\ live = FALSE
    /\ Boot

\* A loop may take one more turn: always when live, else below the bound.
Room(n, max) == live \/ n < max

\* A counter of turns, which stops counting at max.
Count(n, max) == IF n < max THEN n + 1 ELSE n

\* What entering randombytes(buf, n) sets, whatever the backend.
Enter(hi, lo, start) ==
    /\ pc = "idle"
    /\ proc.calls < MaxCalls
    /\ req' = [hi |-> hi, lo |-> lo]
    /\ out' = 0
    /\ pc' = start
    /\ issued' = <<>>
    /\ writes' = <<>>
    /\ status' = -1
    /\ call' = NoCall
    /\ proc' = [proc EXCEPT !.calls = @ + 1]
    /\ UNCHANGED <<seed0, live, thr, mt, unit, flags, env>>

\* Returning to the caller with value v (-1: void).
Leave(v) ==
    /\ pc' = "idle"
    /\ status' = v

\* abort()
Abort ==
    /\ pc' = "aborted"

\* ------------------------------------------------------ LCG backend
\* Mutant: every call starts again from the seed 12345.
LcgCallReseeds ==
    /\ Backend = "lcg"
    /\ \E n \in 0..MaxLcgLen : Enter(0, n, "lcg_loop") /\ outlen' = n
    /\ i' = 0
    /\ rng_state' = Word32(LCG_SEED)
    /\ UNCHANGED <<fd, ctx, len, ret, errno, stream>>

LcgCall ==
    /\ Backend = "lcg"
    /\ \E n \in 0..MaxLcgLen : Enter(0, n, "lcg_loop") /\ outlen' = n
    /\ i' = 0
    /\ UNCHANGED <<rng_state, fd, ctx, len, ret, errno, stream>>

\* Mutant: the loop condition is i <= outlen.
LcgStepOneMore ==
    /\ pc = "lcg_loop"
    /\ i <= outlen
    /\ rng_state' = LcgNext(rng_state)
    /\ writes' = Append(writes, <<i, 1>>)
    /\ stream' = Append(stream, LcgByte(rng_state'))
    /\ i' = i + 1
    /\ call' = [call EXCEPT !.adv = @ + 1]
    /\ UNCHANGED <<seed0, live, thr, mt, unit, flags, env, fd, ctx, pc, req, out, outlen, len, ret,
                   errno, issued, status, proc>>

\* One iteration of the for loop: advance the state, store the byte.
LcgStep ==
    /\ pc = "lcg_loop"
    /\ i < outlen
    /\ rng_state' = LcgNext(rng_state)
    /\ writes' = Append(writes, <<i, 1>>)
    /\ stream' = Append(stream, LcgByte(rng_state'))
    /\ i' = i + 1
    /\ call' = [call EXCEPT !.adv = @ + 1]
    /\ UNCHANGED <<seed0, live, thr, mt, unit, flags, env, fd, ctx, pc, req, out, outlen, len, ret,
                   errno, issued, status, proc>>

LcgReturn ==
    /\ pc = "lcg_loop"
    /\ ~(i < outlen)
    /\ Leave(-1)
    /\ proc' = [proc EXCEPT !.returned = @ + 1]
    /\ UNCHANGED <<seed0, live, thr, mt, unit, flags, env, rng_state, fd, ctx, req, out, outlen, len,
                   i, ret, errno, issued, writes, stream, call>>

\* --------------------------------------------------- Windows backend
\* The lengths asked of the Windows backend: around multiples of the ceiling.
WinLens == {n \in {k * CHUNK + d : k \in 0..MaxChunks, d \in {-1, 0, 1, 2}} :
              n >= 0}

\* Mutant: the comparison is >= and the ceiling one byte short.
ChunkLenShort(n) == IF n >= CHUNK THEN CHUNK - 1 ELSE n

\* len = (outlen > 1048576) ? 1048576 : outlen
ChunkLen(n) == IF n > CHUNK THEN CHUNK ELSE n

WinCall ==
    /\ Backend = "windows"
    /\ \E n \in WinLens : Enter(0, n, "win_acquire") /\ outlen' = n
    /\ ctx' = "none"
    /\ UNCHANGED <<rng_state, fd, len, i, ret, errno, stream>>

\* CryptAcquireContext succeeded.
WinAcquire ==
    /\ pc = "win_acquire"
    /\ ctx' = "acquired"
    /\ call' = [call EXCEPT !.acquire = @ + 1]
    /\ proc' = [proc EXCEPT !.acquired = @ + 1]
    /\ pc' = "win_loop"
    /\ UNCHANGED <<seed0, live, thr, mt, unit, flags, env, rng_state, fd, req, out, outlen, len, i,
                   ret, errno, issued, writes, stream, status>>

\* Mutant: the result of CryptAcquireContext is not tested.
WinAcquireFailIgnored ==
    /\ pc = "win_acquire"
    /\ call' = [call EXCEPT !.acquire = @ + 1]
    /\ pc' = "win_loop"
    /\ UNCHANGED <<seed0, live, thr, mt, unit, flags, env, rng_state, fd, ctx, req, out, outlen, len,
                   i, ret, errno, issued, writes, stream, status, proc>>

\* CryptAcquireContext failed: abort().
WinAcquireFail ==
    /\ pc = "win_acquire"
    /\ call' = [call EXCEPT !.acquire = @ + 1]
    /\ Abort
    /\ UNCHANGED <<seed0, live, thr, mt, unit, flags, env, rng_state, fd, ctx, req, out, outlen, len,
                   i, ret, errno, issued, writes, stream, status, proc>>

\* CryptGenRandom(ctx, len, out) succeeded; out += len; outlen -= len.
WinGen ==
    /\ pc = "win_loop"
    /\ outlen > 0
    /\ len' = ChunkLen(outlen)
    /\ call' = [call EXCEPT !.gen = @ + 1]
    /\ writes' = Append(writes, <<out, len'>>)
    /\ out' = out + len'
    /\ outlen' = outlen - len'
    /\ UNCHANGED <<seed0, live, thr, mt, unit, flags, env, rng_state, fd, ctx, pc, req, i, ret, errno,
                   issued, stream, status, proc>>

\* CryptGenRandom failed: abort().
WinGenFail ==
    /\ pc = "win_loop"
    /\ outlen > 0
    /\ len' = ChunkLen(outlen)
    /\ call' = [call EXCEPT !.gen = @ + 1]
    /\ Abort
    /\ UNCHANGED <<seed0, live, thr, mt, unit, flags, env, rng_state, fd, ctx, req, out, outlen, i,
                   ret, errno, issued, writes, stream, status, proc>>

\* CryptReleaseContext succeeded; return.
WinRelease ==
    /\ pc = "win_loop"
    /\ ~(outlen > 0)
    /\ ctx' = "released"
    /\ call' = [call EXCEPT !.release = @ + 1]
    /\ Leave(-1)
    /\ proc' = [proc EXCEPT !.released = @ + 1, !.returned = @ + 1]
    /\ UNCHANGED <<seed0, live, thr, mt, unit, flags, env, rng_state, fd, req, out, outlen, len, i,
                   ret, errno, issued, writes, stream>>

\* CryptReleaseContext failed: abort().
WinReleaseFail ==
    /\ pc = "win_loop"
    /\ ~(outlen > 0)
    /\ call' = [call EXCEPT !.release = @ + 1]
    /\ Abort
    /\ UNCHANGED <<seed0, live, thr, mt, unit, flags, env, rng_state, fd, ctx, req, out, outlen, len,
                   i, ret, errno, issued, writes, stream, status, proc>>

\* ------------------------------------------- the kernel's answers
Errnos == {"EINTR", "EIO"}

\* What getrandom(out, count, 0) or read(fd, out, count) may answer.
SysResults(count) ==
    {[ret |-> r, errno |-> "none"] : r \in 0..count}
        \cup {[ret |-> -1, errno |-> e] : e \in Errnos}

\* Mutant: every failure is taken for an interruption.
InterruptedAnyError(r, e) == r = -1

\* ret == -1 && errno == EINTR
Interrupted(r, e) == r = -1 /\ e = "EINTR"

\* else if(ret == -1)
Failed(r, e) == ~Interrupted(r, e) /\ r = -1

\* The bytes the kernel stored for an answer r at offset o.
Stored(w, o, r) == IF r > 0 THEN Append(w, <<o, r>>) ELSE w

\* ------------------------------------------------ getrandom backend
GetrandomCall ==
    /\ Backend = "getrandom"
    /\ \E n \in 0..MaxLen : Enter(0, n, "gr_loop") /\ outlen' = n
    /\ UNCHANGED <<rng_state, fd, ctx, len, i, ret, errno, stream>>

\* ret = syscall(SYS_getrandom, out, outlen, 0)
GetrandomSyscall ==
    /\ pc = "gr_loop"
    /\ outlen > 0
    /\ Room(call.sys, MaxSyscalls)
    /\ \E a \in SysResults(outlen) :
          /\ ret' = a.ret
          /\ errno' = a.errno
          /\ writes' = Stored(writes, out, a.ret)
    /\ issued' = <<out, outlen>>
    /\ call' = [call EXCEPT !.sys = Count(@, MaxSyscalls)]
    /\ pc' = "gr_check"
    /\ UNCHANGED <<seed0, live, thr, mt, unit, flags, env, rng_state, fd, ctx, req, out, outlen, len,
                   i, stream, status, proc>>

\* Mutant: the continue is missing, the interrupted call falls through to
\* out += ret; outlen -= ret.
GetrandomRetryFallsThrough ==
    /\ pc = "gr_check"
    /\ Interrupted(ret, errno)
    /\ out' = out + ret
    /\ outlen' = outlen - ret
    /\ pc' = "gr_loop"
    /\ call' = [call EXCEPT !.intr = Count(@, MaxSyscalls + MaxOpens)]
    /\ UNCHANGED <<seed0, live, thr, mt, unit, flags, env, rng_state, fd, ctx, req, len, i, ret,
                   errno, issued, writes, stream, status, proc>>

\* continue
GetrandomRetry ==
    /\ pc = "gr_check"
    /\ Interrupted(ret, errno)
    /\ pc' = "gr_loop"
    /\ call' = [call EXCEPT !.intr = Count(@, MaxSyscalls + MaxOpens)]
    /\ UNCHANGED <<seed0, live, thr, mt, unit, flags, env, rng_state, fd, ctx, req, out, outlen, len,
                   i, ret, errno, issued, writes, stream, status, proc>>

\* Mutant: a failed getrandom is retried like an interrupted one.
GetrandomAbortRetries ==
    /\ pc = "gr_check"
    /\ Failed(ret, errno)
    /\ pc' = "gr_loop"
    /\ UNCHANGED <<seed0, live, thr, mt, unit, flags, env, rng_state, fd, ctx, req, out, outlen, len,
                   i, ret, errno, issued, writes, stream, status, call, proc>>

\* abort()
GetrandomAbort ==
    /\ pc = "gr_check"
    /\ Failed(ret, errno)
    /\ Abort
    /\ UNCHANGED <<seed0, live, thr, mt, unit, flags, env, rng_state, fd, ctx, req, out, outlen, len,
                   i, ret, errno, issued, writes, stream, status, call, proc>>

\* out += ret; outlen -= ret
\* Mutant: the cursor moves, the remaining length is not reduced.
GetrandomAdvanceCursorOnly ==
    /\ pc = "gr_check"
    /\ ~Interrupted(ret, errno)
    /\ ~Failed(ret, errno)
    /\ out' = out + ret
    /\ pc' = "gr_loop"
    /\ call' = [call EXCEPT !.zero = IF ret = 0 THEN Count(@, MaxSyscalls) ELSE @]
    /\ UNCHANGED <<seed0, live, thr, mt, unit, flags, env, rng_state, fd, ctx, req, outlen, len,
                   i, ret, errno, issued, writes, stream, status, proc>>

GetrandomAdvance ==
    /\ pc = "gr_check"
    /\ ~Interrupted(ret, errno)
    /\ ~Failed(ret, errno)
    /\ out' = out + ret
    /\ outlen' = outlen - ret
    /\ pc' = "gr_loop"
    /\ call' = [call EXCEPT !.zero = IF ret = 0 THEN Count(@, MaxSyscalls) ELSE @]
    /\ UNCHANGED <<seed0, live, thr, mt, unit, flags, env, rng_state, fd, ctx, req, len, i, ret,
                   errno, issued, writes, stream, status, proc>>

GetrandomReturn ==
    /\ pc = "gr_loop"
    /\ ~(outlen > 0)
    /\ Leave(-1)
    /\ proc' = [proc EXCEPT !.returned = @ + 1]
    /\ UNCHANGED <<seed0, live, thr, mt, unit, flags, env, rng_state, fd, ctx, req, out, outlen, len,
                   i, ret, errno, issued, writes, stream, call>>

\* ----------------------------------------------- /dev/urandom backend
\* The descriptor open() hands out: the lowest one that is free.
FreeFd == 3 + proc.opened - proc.closed

\* Mutant: fd is not static, every call starts with fd == -1.
UrandomCallLocalFd ==
    /\ Backend = "urandom"
    /\ \E n \in 0..MaxLen : Enter(0, n, "ur_fdtest") /\ outlen' = n
    /\ fd' = -1
    /\ UNCHANGED <<rng_state, ctx, len, i, ret, errno, stream>>

UrandomCall ==
    /\ Backend = "urandom"
    /\ \E n \in 0..MaxLen : Enter(0, n, "ur_fdtest") /\ outlen' = n
    /\ UNCHANGED <<rng_state, fd, ctx, len, i, ret, errno, stream>>

\* fd = open("/dev/urandom", O_RDONLY), succeeding
UrandomOpen ==
    /\ pc = "ur_fdtest"
    /\ fd = -1
    /\ Room(call.open, MaxOpens)
    /\ fd' = FreeFd
    /\ call' = [call EXCEPT !.open = Count(@, MaxOpens)]
    /\ proc' = [proc EXCEPT !.opened = @ + 1]
    /\ UNCHANGED <<seed0, live, thr, mt, unit, flags, env, rng_state, ctx, pc, req, out, outlen, len,
                   i, ret, errno, issued, writes, stream, status>>

\* fd = open("/dev/urandom", O_RDONLY), failing
UrandomOpenFail ==
    /\ pc = "ur_fdtest"
    /\ fd = -1
    /\ Room(call.open, MaxOpens)
    /\ \E e \in Errnos : errno' = e
    /\ call' = [call EXCEPT !.open = Count(@, MaxOpens)]
    /\ pc' = "ur_opencheck"
    /\ UNCHANGED <<seed0, live, thr, mt, unit, flags, env, rng_state, fd, ctx, req, out, outlen, len,
                   i, ret, issued, writes, stream, status, proc>>

\* fd == -1 && errno == EINTR: continue
UrandomOpenRetry ==
    /\ pc = "ur_opencheck"
    /\ Interrupted(fd, errno)
    /\ pc' = "ur_fdtest"
    /\ call' = [call EXCEPT !.intr = Count(@, MaxSyscalls + MaxOpens)]
    /\ UNCHANGED <<seed0, live, thr, mt, unit, flags, env, rng_state, fd, ctx, req, out, outlen, len,
                   i, ret, errno, issued, writes, stream, status, proc>>

\* else if(fd == -1) abort()
UrandomOpenAbort ==
    /\ pc = "ur_opencheck"
    /\ Failed(fd, errno)
    /\ Abort
    /\ UNCHANGED <<seed0, live, thr, mt, unit, flags, env, rng_state, fd, ctx, req, out, outlen, len,
                   i, ret, errno, issued, writes, stream, status, call, proc>>

\* while(fd == -1) is over: the handle is set
UrandomOpened ==
    /\ pc = "ur_fdtest"
    /\ ~(fd = -1)
    /\ pc' = "ur_loop"
    /\ UNCHANGED <<seed0, live, thr, mt, unit, flags, env, rng_state, fd, ctx, req, out, outlen, len,
                   i, ret, errno, issued, writes, stream, status, call, proc>>

\* ret = read(fd, out, outlen)
UrandomRead ==
    /\ pc = "ur_loop"
    /\ outlen > 0
    /\ Room(call.sys, MaxSyscalls)
    /\ \E a \in SysResults(outlen) :
          /\ ret' = a.ret
          /\ errno' = a.errno
          /\ writes' = Stored(writes, out, a.ret)
    /\ issued' = <<out, outlen, fd>>
    /\ call' = [call EXCEPT !.sys = Count(@, MaxSyscalls)]
    /\ pc' = "ur_check"
    /\ UNCHANGED <<seed0, live, thr, mt, unit, flags, env, rng_state, fd, ctx, req, out, outlen, len,
                   i, stream, status, proc>>

\* continue
UrandomRetry ==
    /\ pc = "ur_check"
    /\ Interrupted(ret, errno)
    /\ pc' = "ur_loop"
    /\ call' = [call EXCEPT !.intr = Count(@, MaxSyscalls + MaxOpens)]
    /\ UNCHANGED <<seed0, live, thr, mt, unit, flags, env, rng_state, fd, ctx, req, out, outlen, len,
                   i, ret, errno, issued, writes, stream, status, proc>>

\* abort()
UrandomAbort ==
    /\ pc = "ur_check"
    /\ Failed(ret, errno)
    /\ Abort
    /\ UNCHANGED <<seed0, live, thr, mt, unit, flags, env, rng_state, fd, ctx, req, out, outlen, len,
                   i, ret, errno, issued, writes, stream, status, call, proc>>

\* out += ret; outlen -= ret
UrandomAdvance ==
    /\ pc = "ur_check"
    /\ ~Interrupted(ret, errno)
    /\ ~Failed(ret, errno)
    /\ out' = out + ret
    /\ outlen' = outlen - ret
    /\ pc' = "ur_loop"
    /\ call' = [call EXCEPT !.zero = IF ret = 0 THEN Count(@, MaxSyscalls) ELSE @]
    /\ UNCHANGED <<seed0, live, thr, mt, unit, flags, env, rng_state, fd, ctx, req, len, i, ret,
                   errno, issued, writes, stream, status, proc>>

\* The static fd outlives the call: nothing closes it.
UrandomReturn ==
    /\ pc = "ur_loop"
    /\ ~(outlen > 0)
    /\ Leave(-1)
    /\ proc' = [proc EXCEPT !.returned = @ + 1]
    /\ UNCHANGED <<seed0, live, thr, mt, unit, flags, env, rng_state, fd, ctx, req, out, outlen, len,
                   i, ret, errno, issued, writes, stream, call>>

\* ------------------------------------------------ host-bridge backend
\* (size_t)xlen on the 32-bit WebAssembly target: the low 32 bits.
SizeT(x) == x.lo

\* Mutant: the ladder is probed from the bottom.
CapabilityRequireFirst(e) ==
    IF e.require THEN "require"
    ELSE IF e.globalThisCrypto THEN "globalThis"
    ELSE IF e.crypto THEN "crypto"
    ELSE "none"

\* The branch of the if ladder the host's capabilities select.
Capability(e) ==
    IF e.crypto THEN "crypto"
    ELSE IF e.globalThisCrypto THEN "globalThis"
    ELSE IF e.require THEN "require"
    ELSE "none"

\* void randombytes(uint8_t *out, size_t outlen): crypto_get_random_values(out, outlen)
BridgeCall ==
    /\ Backend = "bridge"
    /\ \E n \in 0..MaxLen :
          /\ Enter(0, n, "br_view")
          /\ outlen' = n
          /\ len' = n
    /\ UNCHANGED <<rng_state, fd, ctx, i, ret, errno, stream>>

\* int randombytes(unsigned char *x, unsigned long long xlen):
\* crypto_get_random_values(x, (size_t)xlen)
KyberCall ==
    /\ Backend = "kyber"
    /\ \E h \in 0..MaxHi, n \in 0..MaxLen :
          /\ Enter(h, n, "br_view")
          /\ len' = SizeT([hi |-> h, lo |-> n])
    /\ UNCHANGED <<rng_state, fd, ctx, outlen, i, ret, errno, stream>>

\* var array = new Uint8Array(Module.HEAPU8.buffer, buf, len)
BridgeView ==
    /\ pc = "br_view"
    /\ pc' = "br_probe"
    /\ UNCHANGED <<seed0, live, thr, mt, unit, flags, env, rng_state, fd, ctx, req, out, outlen, len,
                   i, ret, errno, issued, writes, stream, status, call, proc>>

\* ... raising (a range error)
BridgeViewThrows ==
    /\ pc = "br_view"
    /\ pc' = "br_catch"
    /\ call' = [call EXCEPT !.thrown = "view"]
    /\ UNCHANGED <<seed0, live, thr, mt, unit, flags, env, rng_state, fd, ctx, req, out, outlen, len,
                   i, ret, errno, issued, writes, stream, status, proc>>

\* crypto.getRandomValues(array) / globalThis.crypto.getRandomValues(array) /
\* require('crypto').randomBytes(len) and array.set(bytes): the host fills
\* the whole view before it returns.
BridgeInvoke ==
    /\ pc = "br_probe"
    /\ Capability(env) # "none"
    /\ call' = [call EXCEPT !.invoke = @ + 1]
    /\ issued' = <<0, len, Capability(env)>>
    /\ writes' = Stored(writes, 0, len)
    /\ pc' = "br_done"
    /\ UNCHANGED <<seed0, live, thr, mt, unit, flags, env, rng_state, fd, ctx, req, out, outlen, len,
                   i, ret, errno, stream, status, proc>>

\* Mutant: a raising capability sends the ladder on to the next probe.
BridgeInvokeThrowsTriesNext ==
    /\ pc = "br_probe"
    /\ Capability(env) # "none"
    /\ call.invoke < 3
    /\ call' = [call EXCEPT !.invoke = @ + 1, !.thrown = "host"]
    /\ issued' = <<0, len, Capability(env)>>
    /\ pc' = "br_probe"
    /\ UNCHANGED <<seed0, live, thr, mt, unit, flags, env, rng_state, fd, ctx, req, out, outlen, len,
                   i, ret, errno, writes, stream, status, proc>>

\* ... getRandomValues, require, randomBytes or array.set raising
BridgeInvokeThrows ==
    /\ pc = "br_probe"
    /\ Capability(env) # "none"
    /\ call' = [call EXCEPT !.invoke = @ + 1, !.thrown = "host"]
    /\ issued' = <<0, len, Capability(env)>>
    /\ pc' = "br_catch"
    /\ UNCHANGED <<seed0, live, thr, mt, unit, flags, env, rng_state, fd, ctx, req, out, outlen, len,
                   i, ret, errno, writes, stream, status, proc>>

\* Mutant: the final else is missing, the function returns silently.
BridgeNoSourceSilent ==
    /\ pc = "br_probe"
    /\ Capability(env) = "none"
    /\ pc' = "br_done"
    /\ UNCHANGED <<seed0, live, thr, mt, unit, flags, env, rng_state, fd, ctx, req, out, outlen, len,
                   i, ret, errno, issued, writes, stream, status, call, proc>>

\* throw new Error('No cryptographically secure random source available')
BridgeNoSource ==
    /\ pc = "br_probe"
    /\ Capability(env) = "none"
    /\ pc' = "br_catch"
    /\ call' = [call EXCEPT !.thrown = "nosource"]
    /\ UNCHANGED <<seed0, live, thr, mt, unit, flags, env, rng_state, fd, ctx, req, out, outlen, len,
                   i, ret, errno, issued, writes, stream, status, proc>>

\* Mutant: the catch block logs and swallows the exception.
BridgeCatchSwallows ==
    /\ pc = "br_catch"
    /\ call' = [call EXCEPT !.log = @ + 1]
    /\ pc' = "br_done"
    /\ UNCHANGED <<seed0, live, thr, mt, unit, flags, env, rng_state, fd, ctx, req, out, outlen, len,
                   i, ret, errno, issued, writes, stream, status, proc>>

\* catch (e) { console.error(...); abort(); }
BridgeCatch ==
    /\ pc = "br_catch"
    /\ call' = [call EXCEPT !.log = @ + 1]
    /\ Abort
    /\ UNCHANGED <<seed0, live, thr, mt, unit, flags, env, rng_state, fd, ctx, req, out, outlen, len,
                   i, ret, errno, issued, writes, stream, status, proc>>

\* The void randombytes of the Dilithium tree returns.
BridgeReturn ==
    /\ pc = "br_done"
    /\ Backend = "bridge"
    /\ Leave(-1)
    /\ proc' = [proc EXCEPT !.returned = @ + 1]
    /\ UNCHANGED <<seed0, live, thr, mt, unit, flags, env, rng_state, fd, ctx, req, out, outlen, len,
                   i, ret, errno, issued, writes, stream, call>>

\* return 0;  // Success
KyberReturn ==
    /\ pc = "br_done"
    /\ Backend = "kyber"
    /\ Leave(0)
    /\ proc' = [proc EXCEPT !.returned = @ + 1]
    /\ UNCHANGED <<seed0, live, thr, mt, unit, flags, env, rng_state, fd, ctx, req, out, outlen, len,
                   i, ret, errno, issued, writes, stream, call>>

\* Mutant: the initializer draws seed material from the host.
RandombytesInitSeeds ==
    /\ Backend = "kyber"
    /\ pc = "idle"
    /\ proc.inits < MaxInits
    /\ proc' = [proc EXCEPT !.inits = @ + 1]
    /\ call' = [call EXCEPT !.invoke = @ + 1]
    /\ UNCHANGED <<seed0, live, thr, mt, unit, flags, env, rng_state, fd, ctx, pc, req, out, outlen,
                   len, i, ret, errno, issued, writes, stream, status>>

\* void randombytes_init(entropy_input, personalization_string,
\* security_strength): the three arguments are cast to void, nothing else.
RandombytesInit ==
    /\ Backend = "kyber"
    /\ pc = "idle"
    /\ proc.inits < MaxInits
    /\ \E entropy_input \in {"null", "buf"},
          personalization_string \in {"null", "buf"},
          security_strength \in {128, 256} :
            proc' = [proc EXCEPT !.inits = @ + 1]
    /\ UNCHANGED <<seed0, live, thr, mt, unit, flags, env, rng_state, fd, ctx, pc, req, out, outlen,
                   len, i, ret, errno, issued, writes, stream, status, call>>

\* ------------------------------------------- two threads, no lock
\* The statics rng_state and fd are shared by the threads; nothing guards
\* them.  Each access to a static is a step of its own.

\* Some other thread is inside randombytes.
OthersInside(th) == \E o \in Threads \ {th} : thr[o].pc # "idle"

\* Thread th enters randombytes(buf, n).
MtEnter(th, n, start) ==
    /\ thr[th].pc = "idle"
    /\ ~mt.aborted
    /\ mt.calls < MaxMtCalls
    /\ thr' = [thr EXCEPT ![th] = [IdleThread EXCEPT !.pc = start, !.outlen = n]]
    /\ mt' = [mt EXCEPT !.calls = @ + 1,
                        !.overlap = @ \/ OthersInside(th)]

MtLcgCall(th) ==
    /\ Backend = "lcg"
    /\ \E n \in 0..MaxMtLen : MtEnter(th, n, "lcg_test")
    /\ UNCHANGED <<unit, flags, env, rng_state, fd, ctx, pc, req, out, outlen,
                   len, i, ret, errno, issued, writes, stream, status, call,
                   proc, seed0, live>>

\* i < outlen holds: read rng_state for rng_state * 1103515245 + 12345
MtLcgLoad(th) ==
    /\ ~mt.aborted
    /\ thr[th].pc = "lcg_test"
    /\ thr[th].i < thr[th].outlen
    /\ thr' = [thr EXCEPT ![th].reg = rng_state, ![th].pc = "lcg_store"]
    /\ UNCHANGED <<unit, flags, env, rng_state, fd, ctx, pc, req, out, outlen,
                   len, i, ret, errno, issued, writes, stream, status, call,
                   proc, seed0, live, mt>>

\* Changed: the computed value stays in the register, the static is not
\* written.
MtLcgStoreDropped(th) ==
    /\ ~mt.aborted
    /\ thr[th].pc = "lcg_store"
    /\ thr' = [thr EXCEPT ![th].reg = LcgNext(thr[th].reg),
                          ![th].pc = "lcg_emit"]
    /\ UNCHANGED <<unit, flags, env, rng_state, fd, ctx, pc, req, out, outlen,
                   len, i, ret, errno, issued, writes, stream, status, call,
                   proc, seed0, live, mt>>

\* rng_state = (the value computed from what was read)
MtLcgStore(th) ==
    /\ ~mt.aborted
    /\ thr[th].pc = "lcg_store"
    /\ rng_state' = LcgNext(thr[th].reg)
    /\ thr' = [thr EXCEPT ![th].reg = LcgNext(thr[th].reg),
                          ![th].pc = "lcg_emit"]
    /\ UNCHANGED <<unit, flags, env, fd, ctx, pc, req, out, outlen, len, i,
                   ret, errno, issued, writes, stream, status, call, proc,
                   seed0, live, mt>>

\* out[i] = (rng_state >> 16) & 0xFF: the build may take the value it just
\* stored from its register, or read rng_state again.
MtLcgEmit(th) ==
    /\ ~mt.aborted
    /\ thr[th].pc = "lcg_emit"
    /\ \E v \in {thr[th].reg, rng_state} :
          /\ thr' = [thr EXCEPT ![th].bytes = Append(@, LcgByte(v)),
                                ![th].i = @ + 1,
                                ![th].pc = "lcg_test"]
          /\ stream' = Append(stream, LcgByte(v))
    /\ UNCHANGED <<unit, flags, env, rng_state, fd, ctx, pc, req, out, outlen,
                   len, i, ret, errno, issued, writes, status, call, proc,
                   seed0, live, mt>>

MtLcgReturn(th) ==
    /\ ~mt.aborted
    /\ thr[th].pc = "lcg_test"
    /\ ~(thr[th].i < thr[th].outlen)
    /\ thr' = [thr EXCEPT ![th].pc = "idle"]
    /\ UNCHANGED <<unit, flags, env, rng_state, fd, ctx, pc, req, out, outlen,
                   len, i, ret, errno, issued, writes, stream, status, call,
                   proc, seed0, live, mt>>

MtUrandomCall(th) ==
    /\ Backend = "urandom"
    /\ \E n \in 0..MaxMtLen : MtEnter(th, n, "ur_fdtest")
    /\ UNCHANGED <<unit, flags, env, rng_state, fd, ctx, pc, req, out, outlen,
                   len, i, ret, errno, issued, writes, stream, status, call,
                   proc, seed0, live>>

\* while(fd == -1): the test reads the static
MtUrandomTest(th) ==
    /\ ~mt.aborted
    /\ thr[th].pc = "ur_fdtest"
    /\ thr' = [thr EXCEPT ![th].pc = IF fd = -1 THEN "ur_open" ELSE "ur_loop"]
    /\ UNCHANGED <<unit, flags, env, rng_state, fd, ctx, pc, req, out, outlen,
                   len, i, ret, errno, issued, writes, stream, status, call,
                   proc, seed0, live, mt>>

\* fd = open("/dev/urandom", O_RDONLY), succeeding: a new descriptor
MtUrandomOpen(th) ==
    /\ ~mt.aborted
    /\ thr[th].pc = "ur_open"
    /\ mt.opens < MaxMtOpens
    /\ fd' = 3 + mt.opens
    /\ mt' = [mt EXCEPT !.opens = @ + 1]
    /\ thr' = [thr EXCEPT ![th].pc = "ur_opencheck"]
    /\ UNCHANGED <<unit, flags, env, rng_state, ctx, pc, req, out, outlen,
                   len, i, ret, errno, issued, writes, stream, status, call,
                   proc, seed0, live>>

\* fd = open("/dev/urandom", O_RDONLY), failing: -1 is stored into the static
MtUrandomOpenFail(th) ==
    /\ ~mt.aborted
    /\ thr[th].pc = "ur_open"
    /\ fd' = -1
    /\ \E e \in Errnos :
          thr' = [thr EXCEPT ![th].errno = e, ![th].pc = "ur_opencheck"]
    /\ UNCHANGED <<unit, flags, env, rng_state, ctx, pc, req, out, outlen,
                   len, i, ret, errno, issued, writes, stream, status, call,
                   proc, seed0, live, mt>>

\* if(fd == -1 && errno == EINTR) continue; else if(fd == -1) abort();
\* the tests read the static again
MtUrandomOpenCheck(th) ==
    /\ ~mt.aborted
    /\ thr[th].pc = "ur_opencheck"
    /\ IF Failed(fd, thr[th].errno)
         THEN /\ mt' = [mt EXCEPT !.aborted = TRUE]
              /\ thr' = [thr EXCEPT ![th].pc = "aborted"]
         ELSE /\ mt' = mt
              /\ thr' = [thr EXCEPT ![th].pc = "ur_fdtest"]
    /\ UNCHANGED <<unit, flags, env, rng_state, fd, ctx, pc, req, out, outlen,
                   len, i, ret, errno, issued, writes, stream, status, call,
                   proc, seed0, live>>

\* ret = read(fd, out, outlen); a read from descriptor -1 fails
MtUrandomRead(th) ==
    /\ ~mt.aborted
    /\ thr[th].pc = "ur_loop"
    /\ thr[th].outlen > 0
    /\ \E a \in SysResults(thr[th].outlen) :
          /\ fd = -1 => (a.ret = -1 /\ a.errno # "EINTR")
          /\ thr' = [thr EXCEPT ![th].ret = a.ret, ![th].errno = a.errno,
                                ![th].pc = "ur_check"]
    /\ UNCHANGED <<unit, flags, env, rng_state, fd, ctx, pc, req, out, outlen,
                   len, i, ret, errno, issued, writes, stream, status, call,
                   proc, seed0, live, mt>>

\* continue / abort() / out += ret; outlen -= ret
MtUrandomCheck(th) ==
    /\ ~mt.aborted
    /\ thr[th].pc = "ur_check"
    /\ IF Interrupted(thr[th].ret, thr[th].errno)
         THEN /\ mt' = mt
              /\ thr' = [thr EXCEPT ![th].pc = "ur_loop"]
         ELSE IF Failed(thr[th].ret, thr[th].errno)
         THEN /\ mt' = [mt EXCEPT !.aborted = TRUE]
              /\ thr' = [thr EXCEPT ![th].pc = "aborted"]
         ELSE /\ mt' = mt
              /\ thr' = [thr EXCEPT ![th].i = @ + thr[th].ret,
                                    ![th].outlen = @ - thr[th].ret,
                                    ![th].pc = "ur_loop"]
    /\ UNCHANGED <<unit, flags, env, rng_state, fd, ctx, pc, req, out, outlen,
                   len, i, ret, errno, issued, writes, stream, status, call,
                   proc, seed0, live>>

MtUrandomReturn(th) ==
    /\ ~mt.aborted
    /\ thr[th].pc = "ur_loop"
    /\ ~(thr[th].outlen > 0)
    /\ thr' = [thr EXCEPT ![th].pc = "idle"]
    /\ UNCHANGED <<unit, flags, env, rng_state, fd, ctx, pc, req, out, outlen,
                   len, i, ret, errno, issued, writes, stream, status, call,
                   proc, seed0, live, mt>>

\* =================================================== properties
\* The most recent call has returned to its caller; req, writes, call
\* and status still describe it.
Returned == pc = "idle" /\ proc.returned = proc.calls /\ proc.calls > 0

\* Each write starts where the one before stopped, the first at offset 0.
Contiguous(w) ==
    \A k \in 1..Len(w) :
        /\ w[k][2] > 0
        /\ w[k][1] = IF k = 1 THEN 0 ELSE w[k - 1][1] + w[k - 1][2]

\* The offset just past the last byte written.
Total(w) == IF w = <<>> THEN 0 ELSE w[Len(w)][1] + w[Len(w)][2]

\* The writes cover the offsets 0..n-1, each exactly once, and nothing else.
Covers(w, n) == Contiguous(w) /\ Total(w) = n

SyscallBackends == {"getrandom", "urandom"}

\* C1: on every backend, whenever randombytes returns, each of the L
\* requested destination bytes has been written exactly once, L being the
\* length the caller asked for (all 64 bits of it in the Kyber variant).
C1_ReturnDeliversAll ==
    Returned => (req.hi = 0 /\ Covers(writes, req.lo))

\* C2: in the getrandom and /dev/urandom backends a getrandom, read or open
\* that fails with anything but EINTR is followed at once by abort, with no
\* further syscall, read or open; after abort nothing happens any more, so
\* randombytes never returns; after EINTR execution continues.
C2_StepAfterFailure ==
    /\ (pc \in {"gr_check", "ur_check"} /\ ret = -1 /\ errno # "EINTR")
           => (pc' = "aborted" /\ call' = call /\ proc' = proc /\ writes' = writes)
    /\ (pc = "ur_opencheck" /\ errno # "EINTR")
           => (pc' = "aborted" /\ call' = call /\ proc' = proc /\ fd' = -1)
    /\ (pc \in {"gr_check", "ur_check"} /\ ret = -1 /\ errno = "EINTR")
           => pc' \in {"gr_loop", "ur_loop"}
    /\ (pc = "ur_opencheck" /\ errno = "EINTR") => pc' = "ur_fdtest"
    /\ (pc = "aborted" /\ Backend \in SyscallBackends) => UNCHANGED vars

C2_OnlyInterruptionContinues == [][C2_StepAfterFailure]_vars

C2_Witness ==
    /\ Backend \in SyscallBackends
    /\ pc = "aborted"
    /\ errno = "EIO"
    /\ call.intr > 0

\* C3: in the getrandom and /dev/urandom backends an interrupted getrandom
\* or read leaves the cursor and the remaining length unchanged, the next
\* one is issued with the same cursor and the same remaining length, and
\* whatever the interruptions no destination byte is skipped or written
\* twice.
C3_StepAfterInterrupt ==
    /\ (pc \in {"gr_check", "ur_check"} /\ ret = -1 /\ errno = "EINTR")
           => (out' = out /\ outlen' = outlen /\ writes' = writes)
    /\ (/\ Backend \in SyscallBackends
        /\ call'.sys = call.sys + 1
        /\ issued # <<>> /\ ret = -1 /\ errno = "EINTR")
           => (issued'[1] = issued[1] /\ issued'[2] = issued[2])

C3_NoSkipNoDuplicate ==
    Backend \in SyscallBackends =>
        /\ Contiguous(writes)
        /\ pc \in {"gr_loop", "ur_loop"} => (Total(writes) = out /\ out + outlen = req.lo)
        /\ Returned => Covers(writes, req.lo)

C3_InterruptRetriesSameRange ==
    [][C3_StepAfterInterrupt]_vars /\ []C3_NoSkipNoDuplicate

C3_Witness ==
    /\ Backend = "getrandom"
    /\ Returned
    /\ call.intr >= 2
    /\ Len(writes) >= 2

\* C4: randombytes(buf, 0) returns successfully on every backend without
\* touching the backend: no open, read, getrandom, acquire, release, host
\* invocation or generator advance, and no destination byte written, in
\* every process state, the first call of the process included.
C4_ZeroLengthTouchesNothing ==
    (proc.calls > 0 /\ req.hi = 0 /\ req.lo = 0) =>
        /\ call = NoCall
        /\ writes = <<>>
        /\ pc # "aborted"

\* C4 as amended: randombytes(buf, 0) writes no destination byte and makes
\* no read, getrandom or CryptGenRandom call and no generator advance; on
\* the LCG and getrandom backends it touches nothing and returns.  The
\* other backends are touched: /dev/urandom opens the device when the
\* handle is still unset (the first call), Windows acquires and releases
\* the context, the host bridge invokes the selected capability once on an
\* empty view; the call returns only when those steps succeeded.
C4_ZeroLengthWritesNothing ==
    (proc.calls > 0 /\ req.hi = 0 /\ req.lo = 0) =>
        /\ writes = <<>>
        /\ call.sys = 0 /\ call.gen = 0 /\ call.adv = 0
        /\ Backend \in {"lcg", "getrandom"} => (call = NoCall /\ pc # "aborted")
        /\ Backend = "urandom" =>
              /\ proc.calls >= 2 => call.open = 0
              /\ Returned => fd = 3
        /\ Backend = "windows" =>
              /\ call.acquire <= 1 /\ call.release <= call.acquire
              /\ Returned => (call.acquire = 1 /\ call.release = 1)
        /\ Backend \in {"bridge", "kyber"} =>
              /\ call.invoke <= 1
              /\ Returned => (call.invoke = 1 /\ issued[2] = 0
                              /\ call.thrown = "none")

C4_Witness ==
    /\ Returned
    /\ req.hi = 0 /\ req.lo = 0
    /\ proc.calls = 1
    /\ Backend = "urandom"
    /\ call.open = 2

\* The first bytes of the stream of seed 12345, computed outside the model:
\* s_0 = 12345, s_k = (s_(k-1) * 1103515245 + 12345) mod 2^32,
\* b_k = (s_k div 2^16) mod 256.
RefBytes ==
    <<220, 4, 101, 170, 31, 173, 29, 90, 218, 229, 172, 27, 30, 95, 19, 112,
      121, 108, 253, 16, 255, 25, 175, 96, 29, 4, 172, 180, 29, 2, 43, 70,
      120, 115, 58, 242, 223, 95, 174, 183, 8, 89, 209, 238, 57, 16, 203, 72,
      149, 181, 204, 137, 41, 17, 255, 6, 182, 98, 46, 223, 60, 249, 53, 253>>

\* C5: from the fresh state 12345 the insecure test generator produces the
\* reference sequence b_1, b_2, ...: the state is advanced once per byte,
\* before the byte is taken, with 32-bit wraparound; the bytes of one call
\* are the last req.lo bytes of the stream, in the order of their offsets.
C5_LcgMatchesReference ==
    Backend = "lcg" =>
        /\ Len(stream) <= Len(RefBytes)
        /\ \A k \in 1..Len(stream) : stream[k] = RefBytes[k]
        /\ \A k \in 1..Len(writes) : writes[k] = <<k - 1, 1>>
        /\ call.adv = Len(writes)
        /\ Returned => Len(writes) = req.lo

C5_Witness ==
    /\ Backend = "lcg"
    /\ Returned
    /\ proc.calls = 2
    /\ req.lo > 0
    /\ Len(stream) >= 16

\* n / d rounded up
CeilDiv(n, d) == (n + d - 1) \div d

\* C6: the Windows backend serves a request of L bytes with exactly
\* ceil(L / 1048576) CryptGenRandom calls, each of at most 1048576 bytes,
\* all but the last of exactly 1048576, at contiguous offsets that do not
\* overlap and sum to L; 1048577 bytes take two calls (1048576 and 1),
\* 1048576 bytes take one.
C6_ChunkedInCeilCalls ==
    (Backend = "windows" /\ Returned) =>
        /\ call.gen = CeilDiv(req.lo, 1048576)
        /\ Len(writes) = call.gen
        /\ \A k \in 1..Len(writes) :
              /\ writes[k][2] <= 1048576
              /\ k < Len(writes) => writes[k][2] = 1048576
        /\ Covers(writes, req.lo)
        /\ req.lo = 1048577 => writes = << <<0, 1048576>>, <<1048576, 1>> >>
        /\ req.lo = 1048576 => writes = << <<0, 1048576>> >>

C6_Witness ==
    /\ Backend = "windows"
    /\ Returned
    /\ req.lo = 1048577
    /\ call.gen = 2

\* C7: in both host-bridge variants, when the host offers none of the three
\* capabilities, the call never returns (the Kyber variant never returns 0),
\* no host function is invoked and no destination byte is written; the
\* probe is followed by the catch block and the catch block by abort.
C7_NoCapabilityNoReturn ==
    (/\ Backend \in {"bridge", "kyber"}
     /\ ~env.crypto /\ ~env.globalThisCrypto /\ ~env.require) =>
        /\ proc.returned = 0
        /\ status # 0
        /\ writes = <<>>
        /\ call.invoke = 0
        /\ pc \in {"idle", "br_view", "br_probe", "br_catch", "aborted"}

C7_NoCapabilityStep ==
    (/\ Backend \in {"bridge", "kyber"}
     /\ ~env.crypto /\ ~env.globalThisCrypto /\ ~env.require) =>
        /\ pc = "br_probe" => pc' = "br_catch"
        /\ pc = "br_catch" => pc' = "aborted"
        /\ pc = "aborted" => UNCHANGED vars

C7_NoCapabilityAborts ==
    []C7_NoCapabilityNoReturn /\ [][C7_NoCapabilityStep]_vars

C7_Witness ==
    /\ Backend \in {"bridge", "kyber"}
    /\ ~env.crypto /\ ~env.globalThisCrypto /\ ~env.require
    /\ pc = "aborted"
    /\ call.thrown = "nosource"

\* C8: in the host bridge an exception (from the view's construction, the
\* host capability, or the missing source) is caught, a diagnostic is
\* logged and the process aborts; randombytes never returns after it and
\* the Kyber variant returns 0 only when nothing was raised.
C8_ThrownNeverReturns ==
    /\ call.thrown # "none" =>
          /\ pc \in {"br_catch", "aborted"}
          /\ status = -1
          /\ pc = "aborted" => call.log = 1
    /\ status = 0 => (call.thrown = "none" /\ call.log = 0)

C8_CatchStep ==
    /\ (call.thrown = "none" /\ call'.thrown # "none") => pc' = "br_catch"
    /\ pc = "br_catch" =>
          (pc' = "aborted" /\ call'.log = call.log + 1 /\ writes' = writes)
    /\ (pc = "aborted" /\ call.thrown # "none") => UNCHANGED vars

C8_ExceptionAborts == []C8_ThrownNeverReturns /\ [][C8_CatchStep]_vars

C8_Witness ==
    /\ Backend = "kyber"
    /\ pc = "aborted"
    /\ call.thrown = "host"
    /\ call.log = 1
    /\ proc.returned = 1

\* C9: in the Kyber variant the view handed to the host covers exactly xlen
\* bytes for every 64-bit xlen, and 0 is returned only after exactly xlen
\* bytes were populated: the conversion to size_t never changes the length.
C9_ViewCoversXlen ==
    Backend = "kyber" =>
        /\ issued # <<>> => (req.hi = 0 /\ issued[2] = req.lo)
        /\ (Returned /\ status = 0) => (req.hi = 0 /\ Covers(writes, req.lo))

\* C10: over any sequence of calls on the /dev/urandom backend the device is
\* opened successfully exactly once, on the first call, the open being
\* repeated only after an interruption; every later call opens nothing and
\* reads from that same handle; the handle is never closed.
C10_OpenedOnce ==
    Backend = "urandom" =>
        /\ proc.opened <= 1
        /\ proc.closed = 0
        /\ (fd # -1) <=> (proc.opened = 1)
        /\ fd \in {-1, 3}
        /\ call.open <= call.intr + 1
        /\ proc.calls >= 2 => (call.open = 0 /\ proc.opened = 1)
        /\ pc \in {"ur_loop", "ur_check"} => proc.opened = 1
        /\ proc.returned >= 1 => proc.opened = 1
        /\ issued # <<>> => issued[3] = 3

C10_Witness ==
    /\ Backend = "urandom"
    /\ Returned
    /\ proc.calls = 2
    /\ issued # <<>>
    /\ call.sys > 0

\* C11: randombytes_init does nothing, whatever its arguments: the step
\* changes no state of the program (only the count of initializer calls
\* kept for this property), invokes no host capability, writes no memory,
\* and can be taken between any two calls, so the randombytes calls around
\* it run as if it were absent.
C11_InitStep ==
    (proc'.inits # proc.inits) =>
        /\ proc' = [proc EXCEPT !.inits = proc.inits + 1]
        /\ UNCHANGED <<seed0, live, thr, mt, unit, flags, env, rng_state, fd, ctx, pc, req, out,
                       outlen, len, i, ret, errno, issued, writes, stream,
                       status, call>>

C11_InitIsNoOp == [][C11_InitStep]_vars

C11_Witness ==
    /\ Backend = "kyber"
    /\ Returned
    /\ proc.inits = 1
    /\ proc.calls = 2
    /\ writes # <<>>
    /\ status = 0

Bridges == {"bridge", "kyber"}

\* The capability the fixed priority order (a), (b), (c) designates.
Highest(e) ==
    CASE e.crypto -> "crypto"
      [] ~e.crypto /\ e.globalThisCrypto -> "globalThis"
      [] ~e.crypto /\ ~e.globalThisCrypto /\ e.require -> "require"
      [] OTHER -> "none"

NumAvailable(e) ==
    (IF e.crypto THEN 1 ELSE 0) + (IF e.globalThisCrypto THEN 1 ELSE 0)
        + (IF e.require THEN 1 ELSE 0)

\* C13: in the host bridge the abort after a failed invocation happens only
\* once the list of providers is exhausted: every available capability has
\* been attempted before the process aborts.
C13_AbortOnlyWhenExhausted ==
    (Backend \in Bridges /\ pc = "aborted" /\ call.thrown = "host") =>
        call.invoke = NumAvailable(env)

\* C13 as amended: only the first available capability is invoked; when
\* that invocation raises, no other capability is attempted, whatever else
\* the host offers: the exception goes to the catch block and the process
\* aborts with nothing written.
C13_FailedInvocation ==
    (Backend \in Bridges /\ call.thrown = "host") =>
        /\ call.invoke = 1
        /\ issued[3] = Highest(env)
        /\ writes = <<>>
        /\ pc \in {"br_catch", "aborted"}

C13_AfterFailureStep ==
    (Backend \in Bridges /\ call.thrown = "host") =>
        (call'.invoke = call.invoke /\ issued' = issued /\ writes' = writes)

C13_NoFallbackAfterFailure ==
    []C13_FailedInvocation /\ [][C13_AfterFailureStep]_vars

C13_Witness ==
    /\ Backend \in Bridges
    /\ pc = "aborted"
    /\ call.thrown = "host"
    /\ env.crypto /\ env.require
    /\ call.invoke = 1

\* C14: every call of the Windows backend runs acquire, then zero or more
\* CryptGenRandom calls, then release: CryptGenRandom is called only while
\* the context is acquired; a failed acquire aborts before any
\* CryptGenRandom call or write; release is attempted only once the full
\* length is delivered; a failed release aborts; on every return the
\* context of the call is released, acquires and releases being balanced.
C14_OrderState ==
    Backend = "windows" =>
        /\ call.acquire <= 1 /\ call.release <= 1
        /\ call.gen > 0 => (call.acquire = 1 /\ ctx # "none")
        /\ ctx = "none" => (call.gen = 0 /\ writes = <<>> /\ call.release = 0)
        /\ (call.acquire = 1 /\ ctx = "none") => pc = "aborted"
        /\ call.release = 1 => (outlen = 0 /\ Covers(writes, req.lo))
        /\ (call.release = 1 /\ ctx # "released") => pc = "aborted"
        /\ ctx = "released" => Returned
        /\ Returned =>
              /\ ctx = "released"
              /\ proc.acquired = proc.returned
              /\ proc.released = proc.returned
        /\ proc.acquired - proc.released \in {0, 1}

C14_OrderStep ==
    Backend = "windows" =>
        /\ call'.gen = call.gen + 1 =>
              (ctx = "acquired" /\ ctx' = "acquired" /\ call.release = 0)
        /\ call'.release = call.release + 1 => (ctx = "acquired" /\ outlen = 0)
        /\ pc' = "idle" /\ pc # "idle" => ctx' = "released"

C14_AcquireGenRelease == []C14_OrderState /\ [][C14_OrderStep]_vars

C14_Witness ==
    /\ Backend = "windows"
    /\ Returned
    /\ proc.calls = 2
    /\ call.gen = 2
    /\ proc.released = 2

\* The caller is inside randombytes of the getrandom or /dev/urandom
\* backend; the call is over (returned, or the process aborted).
InSyscallCall == Backend \in SyscallBackends /\ pc \notin {"idle", "aborted"}

CallOver == pc \in {"idle", "aborted"}

\* The answer just received is an interruption; it is a count of 0 bytes.
JustInterrupted ==
    \/ pc \in {"gr_check", "ur_check"} /\ ret = -1 /\ errno = "EINTR"
    \/ pc = "ur_opencheck" /\ errno = "EINTR"

JustZero == pc \in {"gr_check", "ur_check"} /\ ret = 0

\* C15: every call on the getrandom and /dev/urandom backends eventually
\* returns or aborts, provided only that the interruptions are finite in
\* number, whatever else the kernel answers, counts of 0 bytes included.
C15_TerminatesIfInterruptsFinite ==
    (<>[]~JustInterrupted) => (InSyscallCall ~> CallOver)

\* C15 as amended: every such call eventually returns or aborts, provided
\* that the interruptions and the answers of 0 bytes are finite in number.
C15_TerminatesIfStallsFinite ==
    (<>[]~(JustInterrupted \/ JustZero)) => (InSyscallCall ~> CallOver)

C15_Witness ==
    /\ Backend \in SyscallBackends
    /\ live
    /\ Returned
    /\ call.intr >= 1
    /\ call.zero >= 1
    /\ Len(writes) >= 2

\* C16: with two threads calling randombytes concurrently on the
\* /dev/urandom backend while the handle is unset, the device is still
\* opened at most once: no interleaving has both threads see fd == -1 and
\* both open successfully.
C16_OpenedAtMostOnce ==
    Backend = "urandom" => mt.opens <= 1

\* The state after n steps of the generator from state s.
RECURSIVE LcgIter(_, _)
LcgIter(s, n) == IF n = 0 THEN s ELSE LcgNext(LcgIter(s, n - 1))

\* The threads that have stored a new state and not yet emitted its byte.
Storing == Cardinality({th \in Threads : thr[th].pc = "lcg_emit"})

\* C17: on the insecure test generator, as long as the calls of the two
\* threads never overlap, the state is advanced exactly once per byte
\* produced: the bytes are the reference sequence in the order produced and
\* rng_state is the state of the last byte.  (That overlapping calls can lose
\* an update is the reachable state C17_Witness.)
C17_SerialisedNoLostUpdate ==
    (Backend = "lcg" /\ ~mt.overlap) =>
        /\ \A k \in 1..Len(stream) : stream[k] = RefBytes[k]
        /\ rng_state = LcgIter(seed0, Len(stream) + Storing)
        /\ \A th \in Threads : Len(thr[th].bytes) = thr[th].i

\* Both threads read the same state 12345 and emitted the same byte; two
\* bytes were produced and the state was advanced once.
C17_Witness ==
    /\ Backend = "lcg"
    /\ mt.overlap
    /\ \A th \in Threads : thr[th].pc = "idle"
    /\ thr[1].bytes = <<RefBytes[1]>>
    /\ thr[2].bytes = <<RefBytes[1]>>
    /\ Len(stream) = 2
    /\ rng_state = LcgNext(seed0)

\* The generator run for n bytes from state s: <<state reached, bytes>>.
RECURSIVE LcgRun(_, _)
LcgRun(s, n) ==
    IF n = 0 THEN <<s, <<>>>>
    ELSE LET r == LcgRun(s, n - 1)
             nxt == LcgNext(r[1])
         IN  <<nxt, Append(r[2], LcgByte(nxt))>>

\* C18: the insecure test generator is one continuous stream across calls,
\* from every starting state: the bytes produced by the calls so far, in
\* order, and the state reached are those of the generator run for the total
\* number of bytes from the starting state, however the requests were split
\* into calls; a call that has returned has added exactly its length.
C18_OneStreamAcrossCalls ==
    Backend = "lcg" =>
        /\ <<rng_state, stream>> = LcgRun(seed0, Len(stream))
        /\ pc = "lcg_loop" => i <= outlen /\ i <= Len(stream)
        /\ Returned => i = outlen /\ outlen <= Len(stream)
        /\ proc.calls <= 1 => Len(stream) = i

\* The second of two non-empty calls has returned, from a starting state
\* other than 12345.
C18_Witness ==
    /\ Backend = "lcg"
    /\ seed0 # Word32(LCG_SEED)
    /\ Returned
    /\ proc.returned = 2
    /\ outlen > 0
    /\ Len(stream) > outlen

LoopBackends == {"windows", "getrandom", "urandom"}

\* A position inside the delivery loop of one of the three backends.
InLoop == pc \in {"win_loop", "gr_loop", "gr_check", "ur_loop", "ur_check"}

\* One more CryptGenRandom call is made by this step.
C19_WinGenStep ==
    (pc = "win_loop" /\ call'.gen = call.gen + 1) =>
        /\ 0 < len' /\ len' <= outlen /\ len' <= CHUNK
        /\ pc' = "win_loop" => (out' = out + len' /\ outlen' = outlen - len')
        /\ pc' # "win_loop" => (out' = out /\ outlen' = outlen /\ writes' = writes)

C19_LoopState ==
    Backend \in LoopBackends =>
        /\ InLoop => /\ out + outlen = req.lo
                     /\ 0 <= out /\ 0 <= outlen
        /\ pc \in {"gr_check", "ur_check"} =>
              /\ issued[1] = out /\ issued[2] = outlen
              /\ ret <= outlen
        /\ \A k \in 1..Len(writes) :
              /\ 0 <= writes[k][1]
              /\ 0 <= writes[k][2]
              /\ writes[k][1] + writes[k][2] <= req.lo

\* C19: in the getrandom, /dev/urandom and Windows loops, at every iteration
\* cursor + remaining length = the original request L, the count asked of
\* the backend is at most the remaining length (which never goes below 0),
\* and every write lies within offsets 0..L-1.
C19_LoopInvariant ==
    [][C19_WinGenStep]_vars /\ []C19_LoopState

\* getrandom delivered part of what remained, in the middle of a request.
C19_Witness ==
    /\ Backend = "getrandom"
    /\ pc = "gr_check"
    /\ out > 0
    /\ ret > 0
    /\ ret < outlen

\* The definitions of randombytes that survive preprocessing of
\* randombytes.c under the flags f: each is kept by the conditionals that
\* enclose it (#ifdef __EMSCRIPTEN__ ... #else; inside the #else part
\* #ifdef _WIN32 ... #elif defined(__linux__) && defined(SYS_getrandom)
\* ... #else ... #endif).
Compiled(f) ==
    {b \in {"lcg"} : f.EMSCRIPTEN}
        \cup {b \in {"windows"} : ~f.EMSCRIPTEN /\ f.WIN32}
        \cup {b \in {"getrandom"} :
                 ~f.EMSCRIPTEN /\ ~f.WIN32 /\ (f.linux /\ f.SYS_getrandom)}
        \cup {b \in {"urandom"} :
                 ~f.EMSCRIPTEN /\ ~f.WIN32 /\ ~(f.linux /\ f.SYS_getrandom)}

\* C20: under every combination of the four build flags randombytes.c of
\* the Dilithium tree defines exactly one randombytes, and the build runs
\* it: the test generator with __EMSCRIPTEN__, otherwise the Windows
\* backend with _WIN32, otherwise getrandom with __linux__ and
\* SYS_getrandom, otherwise /dev/urandom; the test generator only with
\* __EMSCRIPTEN__.  The positions a call takes are those of that backend.
C20_OneBackendByPriority ==
    unit = "dilithium5/randombytes.c" =>
        /\ Cardinality(Compiled(flags)) = 1
        /\ Compiled(flags) = {Backend}
        /\ flags.EMSCRIPTEN => Backend = "lcg"
        /\ (~flags.EMSCRIPTEN /\ flags.WIN32) => Backend = "windows"
        /\ (~flags.EMSCRIPTEN /\ ~flags.WIN32
               /\ flags.linux /\ flags.SYS_getrandom) => Backend = "getrandom"
        /\ (~flags.EMSCRIPTEN /\ ~flags.WIN32
               /\ ~(flags.linux /\ flags.SYS_getrandom)) => Backend = "urandom"
        /\ Backend = "lcg" => flags.EMSCRIPTEN
        /\ pc = "lcg_loop" => flags.EMSCRIPTEN
        /\ pc \in {"win_acquire", "win_loop"} =>
               (~flags.EMSCRIPTEN /\ flags.WIN32)
        /\ pc \in {"gr_loop", "gr_check"} =>
               (~flags.EMSCRIPTEN /\ ~flags.WIN32
                   /\ flags.linux /\ flags.SYS_getrandom)
        /\ pc \in {"ur_fdtest", "ur_opencheck", "ur_loop", "ur_check"} =>
               (~flags.EMSCRIPTEN /\ ~flags.WIN32
                   /\ ~(flags.linux /\ flags.SYS_getrandom))

\* A build with _WIN32, __linux__ and SYS_getrandom all set and
\* __EMSCRIPTEN__ unset has run the Windows backend to its return.
C20_Witness ==
    /\ unit = "dilithium5/randombytes.c"
    /\ ~flags.EMSCRIPTEN
    /\ flags.WIN32
    /\ flags.linux
    /\ flags.SYS_getrandom
    /\ Returned
    /\ ctx = "released"
    /\ Len(writes) >= 1

Next ==
    \/ LcgCall
    \/ LcgStep
    \/ LcgReturn
    \/ WinCall
    \/ WinAcquire
    \/ WinAcquireFail
    \/ WinGen
    \/ WinGenFail
    \/ WinRelease
    \/ WinReleaseFail
    \/ GetrandomCall
    \/ GetrandomSyscall
    \/ GetrandomRetry
    \/ GetrandomAbort
    \/ GetrandomAdvance
    \/ GetrandomReturn
    \/ UrandomCall
    \/ UrandomOpen
    \/ UrandomOpenFail
    \/ UrandomOpenRetry
    \/ UrandomOpenAbort
    \/ UrandomOpened
    \/ UrandomRead
    \/ UrandomRetry
    \/ UrandomAbort
    \/ UrandomAdvance
    \/ UrandomReturn
    \/ BridgeCall
    \/ KyberCall
    \/ BridgeView
    \/ BridgeViewThrows
    \/ BridgeInvoke
    \/ BridgeInvokeThrows
    \/ BridgeNoSource
    \/ BridgeCatch
    \/ BridgeReturn
    \/ KyberReturn
    \/ RandombytesInit

Spec == Init /\ [][Next]_vars

\* The same process with its loops unbounded.  The program is sequential and
\* every call into the kernel or the host answers, so it always takes its
\* next step.
InitLive ==
    /\ seed0 = Word32(LCG_SEED)
    /\ live = TRUE
    /\ Boot

SpecLive == InitLive /\ [][Next]_vars /\ WF_vars(Next)
\* Two threads of one process on a backend with a static: the test
\* generator or /dev/urandom.
InitMT ==
    /\ seed0 = Word32(LCG_SEED)
    /\ live = FALSE
    /\ Boot
    /\ unit = "dilithium5/randombytes.c"
    /\ flags \in {[EMSCRIPTEN |-> TRUE, WIN32 |-> FALSE, linux |-> FALSE,
                   SYS_getrandom |-> FALSE],
                  [EMSCRIPTEN |-> FALSE, WIN32 |-> FALSE, linux |-> TRUE,
                   SYS_getrandom |-> FALSE]}

NextMT ==
    \E th \in Threads :
        \/ MtLcgCall(th)
        \/ MtLcgLoad(th)
        \/ MtLcgStore(th)
        \/ MtLcgEmit(th)
        \/ MtLcgReturn(th)
        \/ MtUrandomCall(th)
        \/ MtUrandomTest(th)
        \/ MtUrandomOpen(th)
        \/ MtUrandomOpenFail(th)
        \/ MtUrandomOpenCheck(th)
        \/ MtUrandomRead(th)
        \/ MtUrandomCheck(th)
        \/ MtUrandomReturn(th)

SpecMT == InitMT /\ [][NextMT]_vars
\* States the static rng_state may hold when a sequence of calls starts:
\* the initialiser, both ends of the range, the sign bit, and a state whose
\* next product wraps.
SeedSamples ==
    {Word32(LCG_SEED), <<0, 0>>, <<W16 - 1, W16 - 1>>, <<W16 \div 2, 0>>,
     LcgIter(Word32(LCG_SEED), MaxLcgLen)}

\* The insecure test generator alone, from any sampled starting state.
InitStream ==
    /\ seed0 \in SeedSamples
    /\ live = FALSE
    /\ Boot
    /\ unit = "dilithium5/randombytes.c"
    /\ flags = [EMSCRIPTEN |-> TRUE, WIN32 |-> FALSE, linux |-> FALSE,
                SYS_getrandom |-> FALSE]

NextStream == LcgCall \/ LcgStep \/ LcgReturn

SpecStream == InitStream /\ [][NextStream]_vars
====
